---- MODULE Spec2Model ----
(***************************************************************************)
(* Model of the ingredient trie of projekt_agh: the build from the corpus  *)
(* CSV (gui.py _create_trie_from_csv), its JSON persistence, the           *)
(* load-or-generate gate of TrieHandler and the two queries                *)
(* (get_suggestions, is_valid_ingredient).                                 *)
(*                                                                         *)
(* A Python dict is an insertion-ordered mapping: it is modelled as a      *)
(* sequence of entries [k |-> key, v |-> value] with unique keys.  A       *)
(* string is a sequence of one-character strings.  The persisted file is   *)
(* a sequence of JSON tokens.  The build is a loop over the rows of the    *)
(* CSV: each iteration is a step, and the row it handles is its input.     *)
(***************************************************************************)
EXTENDS Integers, Sequences, FiniteSets, TLC

VARIABLES
    csvExists,     \* the source CSV file exists and is readable
    csvMtime,      \* modification time of the source CSV
    args,          \* constructor arguments given: [source_csv, id_col, data_col]
    dirExists,     \* the parent directory of the persisted file exists
    fileExists,    \* os.path.exists(self.filepath)
    fileBytes,     \* content of the persisted file, as JSON tokens
    fileMtime,     \* modification time of the persisted file
    writable,      \* the persisted path can be created and written
    clock,         \* file-system time
    root,          \* TrieHandler.root
    pc,            \* "start": no handler yet; "building": inside _create_trie_from_csv;
                   \* "ready": __init__ returned; "raised": __init__ propagated an exception
    trie_root,     \* _create_trie_from_csv's trie_root while the loop runs
    nrows,         \* rows of the CSV the loop has handled
    sawText,       \* some row of the CSV read has a text in the data column
    inserted,      \* history: the words the running or last build inserted
    seen,          \* history: the kinds of rows the running or last build handled
    produced,      \* history: <<word, id>> for each word a kept row's cell gave
    built,         \* history: the trie the last build returned
    pre,           \* history: what the last construction found on disk
    corpusRead,    \* history: the last construction read the source CSV
    text,          \* AutocompleteLineEdit.text()
    popup,         \* AutocompleteLineEdit.popup: the FloatingList, once created
    bubbles,       \* the texts of the BubbleWidgets in the FlowScrollArea, in order
    called,        \* history: the query the last GUI handler made, and its answer
    corpus,        \* the rows of the source CSV a TrieManager reads
    mgr,           \* the TrieManager: its trie_root, and the history of its last call
    watching,      \* MainWindow started the observer on the folder of the results file
    resultsFile,   \* the results file (RECIPES_FOUND): missing, unusable, or a list of ids
    current_results_ids,   \* MainWindow.current_results_ids
    current_detail_id,     \* MainWindow.current_detail_id
    stackIndex,    \* MainWindow.stack.currentIndex(): 0 the results, 1 the detail view
    queued,        \* file_changed signals emitted by the observer thread, not yet delivered
    timer,         \* debounce_timer: 0 when inactive, else the ticks left before it fires
    emitted,       \* history: how many file_changed signals were emitted
    reloads,       \* history: how many times reload_results_from_file ran after startup
    sinceReload    \* history: signals delivered since the last reload

vars == <<csvExists, csvMtime, args, dirExists, fileExists, fileBytes, fileMtime,
          writable, clock, root, pc, trie_root, nrows, sawText, inserted, seen,
          produced, built, pre, corpusRead, text, popup, bubbles, called,
          corpus, mgr, watching, resultsFile, current_results_ids, current_detail_id,
          stackIndex, queued, timer, emitted, reloads, sinceReload>>

\* the part of the state the line edit and its flow area own
guiVars == <<text, popup, bubbles, called>>

\* the part of the state a TrieManager owns, with the corpus it reads
mgrVars == <<corpus, mgr>>

\* the part of the state the results view of MainWindow owns, with its file
viewVars == <<watching, resultsFile, current_results_ids, current_detail_id,
              stackIndex, queued, timer, emitted, reloads, sinceReload>>

(***************************************************************************)
(* Bounds of the model.                                                    *)
(***************************************************************************)
MaxRows     == 2    \* rows in the corpus
MaxCellLen  == 3    \* characters in a data cell
MaxId       == 2    \* identifiers are 1..MaxId
MaxQueryLen == 3    \* characters in a query string
MaxLimit    == 2    \* suggestion limits are 0..MaxLimit
MaxClock    == 3    \* file-system time stops advancing here
MaxGateRows == 1    \* rows in the corpus when the gate is exercised
MaxKeep     == 1    \* JSON tokens a damaged persisted file may keep
MaxTextLen  == 2    \* characters of a text the user leaves in the line edit
MaxBubbles  == 2    \* bubbles in the flow area
MaxGuiRows  == 1    \* rows in the corpus behind the window
MaxMgrRows  == 1    \* rows in the corpus a TrieManager reads
MaxRecipeId == 2    \* recipe ids are 0..MaxRecipeId
MaxResults  == 2    \* results in the results file
MaxSignals  == 3    \* file_changed signals the observer emits
Interval    == 2    \* ticks the debounce interval (200 ms) lasts

Letters   == {"a", "b", "A"}
Space     == " "
Separator == ";"
CellChars == Letters \cup {Space, Separator}
IDS       == "__ids__"

RECURSIVE StringsUpTo(_, _)
StringsUpTo(chars, n) ==
    IF n = 0 THEN {<<>>}
    ELSE LET shorter == StringsUpTo(chars, n - 1)
         IN  shorter \cup {Append(s, c) : s \in shorter, c \in chars}

Cells   == StringsUpTo(CellChars, MaxCellLen) \ {<<>>}
Ids     == 1..MaxId
\* A row of the CSV: a field is absent when the cell is empty (pandas reads NaN).
Rows    == [id : Ids, cell : Cells] \cup [id : Ids] \cup [cell : Cells]
Queries == StringsUpTo(CellChars, MaxQueryLen)
Limits  == 0..MaxLimit

\* The rows of the corpus when the gate is exercised.
GateRows ==
    {[id |-> 1, cell |-> <<"a">>],
     [id |-> 2, cell |-> <<"A", ";", " ", "b">>],
     [id |-> 1]}

(***************************************************************************)
(* Strings: str.lower, str.strip, str.split.                               *)
(***************************************************************************)
LowerChar(c) == IF c = "A" THEN "a" ELSE IF c = "B" THEN "b" ELSE c

Lower(s) == [i \in 1..Len(s) |-> LowerChar(s[i])]

RECURSIVE LStrip(_)
LStrip(s) == IF s # <<>> /\ Head(s) = Space THEN LStrip(Tail(s)) ELSE s

RECURSIVE RStrip(_)
RStrip(s) ==
    IF s # <<>> /\ s[Len(s)] = Space THEN RStrip(SubSeq(s, 1, Len(s) - 1)) ELSE s

Strip(s) == RStrip(LStrip(s))

\* s.split(sep): the fragments between separators, empty ones included.
RECURSIVE SplitFrom(_, _, _)
SplitFrom(s, sep, cur) ==
    IF s = <<>> THEN <<cur>>
    ELSE IF Head(s) = sep THEN <<cur>> \o SplitFrom(Tail(s), sep, <<>>)
    ELSE SplitFrom(Tail(s), sep, Append(cur, Head(s)))

Split(s, sep) == SplitFrom(s, sep, <<>>)

IsPrefixOf(p, s) == Len(p) <= Len(s) /\ SubSeq(s, 1, Len(p)) = p

(***************************************************************************)
(* Python dict as an ordered sequence of entries.                          *)
(***************************************************************************)
HasKey(d, key) == \E i \in 1..Len(d) : d[i].k = key

Get(d, key) == d[CHOOSE i \in 1..Len(d) : d[i].k = key].v

\* d[key] = val: an existing key keeps its position, a new key goes last.
Put(d, key, val) ==
    IF HasKey(d, key)
    THEN [i \in 1..Len(d) |-> IF d[i].k = key THEN [k |-> key, v |-> val] ELSE d[i]]
    ELSE Append(d, [k |-> key, v |-> val])

\* a conversion that loses the identifiers
SortedList_Empty(S) == <<>>

RECURSIVE SortedList(_)
SortedList(S) ==
    IF S = {} THEN <<>>
    ELSE LET m == CHOOSE x \in S : \A y \in S : x <= y
         IN  <<m>> \o SortedList(S \ {m})

(***************************************************************************)
(* Build: _create_trie_from_csv.                                           *)
(***************************************************************************)
\* .dropna(): a row is kept when it has both an id and a data cell
Kept(r) == DOMAIN r = {"id", "cell"}

\* the comprehension without its filter `if x.strip()`
NonEmpty_KeepAll(s) == TRUE

NonEmpty(s) == s # <<>>

\* items = [x.strip() for x in item_str.split(separator) if x.strip()]
StripAll(frags) == [i \in 1..Len(frags) |-> Strip(frags[i])]

Items(item_str, sep) == SelectSeq(StripAll(Split(item_str, sep)), NonEmpty)

\* node["__ids__"] = {doc_id} in place of setdefault(...).add: earlier ids are lost
AddId_Replace(node, doc_id) == Put(node, IDS, {doc_id})

\* node.setdefault("__ids__", set()).add(doc_id)
AddId(node, doc_id) ==
    IF HasKey(node, IDS)
    THEN Put(node, IDS, Get(node, IDS) \cup {doc_id})
    ELSE Put(node, IDS, {doc_id})

\* InsertWord with node[char] = {} in place of setdefault: an existing child is replaced
RECURSIVE InsertWord_Overwrite(_, _, _)
InsertWord_Overwrite(node, word, doc_id) ==
    IF word = <<>> THEN AddId(node, doc_id)
    ELSE Put(node, Head(word), InsertWord_Overwrite(<<>>, Tail(word), doc_id))

\* for char in word: node = node.setdefault(char, {}); then the ids of the last node
RECURSIVE InsertWord(_, _, _)
InsertWord(node, word, doc_id) ==
    IF word = <<>> THEN AddId(node, doc_id)
    ELSE LET char  == Head(word)
             child == IF HasKey(node, char) THEN Get(node, char) ELSE <<>>
         IN  Put(node, char, InsertWord(child, Tail(word), doc_id))

RECURSIVE InsertItems(_, _, _)
InsertItems(trie, items, doc_id) ==
    IF items = <<>> THEN trie
    ELSE InsertItems(InsertWord(trie, Head(items), doc_id), Tail(items), doc_id)

\* one iteration of the loop over zip(doc_ids, items_data), for a row dropna kept;
\* items_data is lower-cased before the split
RowInto(trie, r, sep) ==
    IF Kept(r) THEN InsertItems(trie, Items(Lower(r.cell), sep), r.id) ELSE trie

RECURSIVE convert_sets_to_lists(_)
convert_sets_to_lists(obj) ==
    [i \in 1..Len(obj) |->
        [k |-> obj[i].k,
         v |-> IF obj[i].k = IDS THEN SortedList(obj[i].v)
               ELSE convert_sets_to_lists(obj[i].v)]]

\* the words a row makes the build insert
RowTokens(r, sep) ==
    IF Kept(r)
    THEN LET items == Items(Lower(r.cell), sep) IN {items[i] : i \in 1..Len(items)}
    ELSE {}

\* the kinds of a row: it lacks the id or the data cell; or dropna keeps it and
\* its cell has a fragment that is blank, one that is not in normal form
\* (upper-case or padded), or two fragments that give the same word
RowKinds(r, sep) ==
    IF ~Kept(r)
    THEN {x \in {"noId"} : "id" \notin DOMAIN r} \cup {x \in {"noCell"} : "cell" \notin DOMAIN r}
    ELSE LET frags == Split(r.cell, sep)
             word(i) == Strip(Lower(frags[i]))
         IN  {x \in {"blank"} : \E i \in 1..Len(frags) : word(i) = <<>>}
             \cup {x \in {"raw"} :
                      \E i \in 1..Len(frags) : word(i) # <<>> /\ word(i) # frags[i]}
             \cup {x \in {"repeat"} :
                      \E i, j \in 1..Len(frags) :
                          i < j /\ word(i) # <<>> /\ word(i) = word(j)}

\* the words of a row, fragment by fragment, each with the row's id: what a kept
\* row hands to the innermost loop
RowPairs(r, sep) ==
    IF ~Kept(r) THEN {}
    ELSE LET frags == Split(r.cell, sep)
         IN  {<<Strip(Lower(frags[i])), r.id>> : i \in 1..Len(frags)}
                 \ {<<(<<>>), r.id>>}

(***************************************************************************)
(* Persisted form: orjson.dumps / orjson.loads, at the level of JSON       *)
(* tokens.  Punctuation is [p |-> ..], a string [s |-> ..], a number       *)
(* [n |-> ..].                                                             *)
(***************************************************************************)
P(x) == [p |-> x]

IsP(tok, x) == DOMAIN tok = {"p"} /\ tok.p = x

RECURSIVE DumpList(_)
DumpList(l) ==
    IF l = <<>> THEN <<>>
    ELSE <<[n |-> Head(l)]>> \o (IF Len(l) > 1 THEN <<P(",")>> ELSE <<>>) \o DumpList(Tail(l))

RECURSIVE DumpDict(_)
RECURSIVE DumpEntries(_)
DumpEntries(d) ==
    IF d = <<>> THEN <<>>
    ELSE <<[s |-> Head(d).k], P(":")>>
         \o (IF Head(d).k = IDS THEN <<P("[")>> \o DumpList(Head(d).v) \o <<P("]")>>
             ELSE DumpDict(Head(d).v))
         \o (IF Len(d) > 1 THEN <<P(",")>> ELSE <<>>)
         \o DumpEntries(Tail(d))

DumpDict(d) == <<P("{")>> \o DumpEntries(d) \o <<P("}")>>

\* Dumps with the keys of every object sorted (orjson.OPT_SORT_KEYS, sort_keys=True)
KeyOrder == <<" ", ";", "A", "B", "__ids__", "a", "b">>

KeyRank(key) == CHOOSE i \in 1..Len(KeyOrder) : KeyOrder[i] = key

RECURSIVE SortKeys(_)
SortKeys(d) ==
    IF d = <<>> THEN <<>>
    ELSE LET m    == CHOOSE i \in 1..Len(d) :
                        \A j \in 1..Len(d) : KeyRank(d[i].k) <= KeyRank(d[j].k)
             rest == [j \in 1..(Len(d) - 1) |-> IF j < m THEN d[j] ELSE d[j + 1]]
         IN  <<[k |-> d[m].k,
                v |-> IF d[m].k = IDS THEN d[m].v ELSE SortKeys(d[m].v)]>>
             \o SortKeys(rest)

Dumps_SortKeys(trie) == DumpDict(SortKeys(trie))

Dumps(trie) == DumpDict(trie)

Fail == [ok |-> FALSE, val |-> <<>>, rest |-> <<>>]

\* elements of an array after "[": numbers separated by commas, up to "]"
RECURSIVE ParseElems(_, _)
ParseElems(ts, acc) ==
    IF ts = <<>> THEN Fail
    ELSE IF DOMAIN Head(ts) # {"n"} THEN Fail
    ELSE LET acc2 == Append(acc, Head(ts).n)
             ts2  == Tail(ts)
         IN  IF ts2 = <<>> THEN Fail
             ELSE IF IsP(Head(ts2), "]") THEN [ok |-> TRUE, val |-> acc2, rest |-> Tail(ts2)]
             ELSE IF IsP(Head(ts2), ",") THEN ParseElems(Tail(ts2), acc2)
             ELSE Fail

RECURSIVE ParseValue(_)
RECURSIVE ParseMembers(_, _)
\* members of an object after "{" or ",": "key" : value, then "," or "}"
ParseMembers(ts, acc) ==
    IF Len(ts) < 2 THEN Fail
    ELSE IF DOMAIN ts[1] # {"s"} \/ ~IsP(ts[2], ":") THEN Fail
    ELSE LET r == ParseValue(SubSeq(ts, 3, Len(ts)))
         IN  IF ~r.ok \/ r.rest = <<>> THEN Fail
             ELSE LET acc2 == Put(acc, ts[1].s, r.val)
                  IN  IF IsP(Head(r.rest), "}")
                      THEN [ok |-> TRUE, val |-> acc2, rest |-> Tail(r.rest)]
                      ELSE IF IsP(Head(r.rest), ",") THEN ParseMembers(Tail(r.rest), acc2)
                      ELSE Fail

ParseValue(ts) ==
    IF ts = <<>> THEN Fail
    ELSE IF IsP(Head(ts), "{")
         THEN IF Len(ts) >= 2 /\ IsP(ts[2], "}")
              THEN [ok |-> TRUE, val |-> <<>>, rest |-> SubSeq(ts, 3, Len(ts))]
              ELSE ParseMembers(Tail(ts), <<>>)
    ELSE IF IsP(Head(ts), "[")
         THEN IF Len(ts) >= 2 /\ IsP(ts[2], "]")
              THEN [ok |-> TRUE, val |-> <<>>, rest |-> SubSeq(ts, 3, Len(ts))]
              ELSE ParseElems(Tail(ts), <<>>)
    ELSE Fail

\* orjson.loads: the whole input must be one value; anything else raises
Loads(bytes) ==
    LET r == ParseValue(bytes)
    IN  IF r.ok /\ r.rest = <<>> THEN [ok |-> TRUE, val |-> r.val]
        ELSE [ok |-> FALSE, val |-> <<>>]

(***************************************************************************)
(* Queries: TrieHandler.get_suggestions and is_valid_ingredient.           *)
(***************************************************************************)
\* Walk that passes over a character the node lacks instead of giving up
RECURSIVE Walk_SkipMissing(_, _)
Walk_SkipMissing(node, word) ==
    IF word = <<>> THEN [found |-> TRUE, node |-> node]
    ELSE IF ~HasKey(node, Head(word)) THEN Walk_SkipMissing(node, Tail(word))
    ELSE Walk_SkipMissing(Get(node, Head(word)), Tail(word))

\* for char in word: if char not in node: return ...; node = node[char]
RECURSIVE Walk(_, _)
Walk(node, word) ==
    IF word = <<>> THEN [found |-> TRUE, node |-> node]
    ELSE IF ~HasKey(node, Head(word)) THEN [found |-> FALSE, node |-> <<>>]
    ELSE Walk(Get(node, Head(word)), Tail(word))

\* a push of the first child only: the other subtrees are never visited
PushChildren_FirstOnly(stack, node, word, i) ==
    LET edges == {j \in 1..Len(node) : node[j].k # IDS}
    IN  IF edges = {} THEN stack
        ELSE LET j == CHOOSE x \in edges : \A y \in edges : x <= y
             IN  Append(stack, [node |-> node[j].v, word |-> Append(word, node[j].k)])

\* a push without reversed(): the child created last is popped last
RECURSIVE PushChildren_Forward(_, _, _, _)
PushChildren_Forward(stack, node, word, i) ==
    IF i = 0 THEN stack
    ELSE LET rest == PushChildren_Forward(stack, node, word, i - 1)
         IN  IF node[i].k # IDS
             THEN Append(rest, [node |-> node[i].v, word |-> Append(word, node[i].k)])
             ELSE rest

\* for char, next_node in reversed(list(current_node.items())): push unless "__ids__"
RECURSIVE PushChildren(_, _, _, _)
PushChildren(stack, node, word, i) ==
    IF i = 0 THEN stack
    ELSE PushChildren(IF node[i].k # IDS
                      THEN Append(stack, [node |-> node[i].v, word |-> Append(word, node[i].k)])
                      ELSE stack,
                      node, word, i - 1)

\* SuggestLoop with the test len(results) <= limit
RECURSIVE SuggestLoop_OffByOne(_, _, _)
SuggestLoop_OffByOne(stack, results, limit) ==
    IF stack = <<>> \/ ~(Len(results) <= limit) THEN results
    ELSE LET top     == stack[Len(stack)]
             popped  == SubSeq(stack, 1, Len(stack) - 1)
             results2 == IF HasKey(top.node, IDS) THEN Append(results, top.word)
                         ELSE results
         IN  SuggestLoop_OffByOne(PushChildren(popped, top.node, top.word, Len(top.node)),
                                  results2, limit)

\* SuggestLoop with results.insert(0, current_word)
RECURSIVE SuggestLoop_Prepend(_, _, _)
SuggestLoop_Prepend(stack, results, limit) ==
    IF stack = <<>> \/ ~(Len(results) < limit) THEN results
    ELSE LET top     == stack[Len(stack)]
             popped  == SubSeq(stack, 1, Len(stack) - 1)
             results2 == IF HasKey(top.node, IDS) THEN <<top.word>> \o results
                         ELSE results
         IN  SuggestLoop_Prepend(PushChildren(popped, top.node, top.word, Len(top.node)),
                                 results2, limit)

\* while stack and len(results) < limit
RECURSIVE SuggestLoop(_, _, _)
SuggestLoop(stack, results, limit) ==
    IF stack = <<>> \/ ~(Len(results) < limit) THEN results
    ELSE LET top     == stack[Len(stack)]
             popped  == SubSeq(stack, 1, Len(stack) - 1)
             results2 == IF HasKey(top.node, IDS) THEN Append(results, top.word)
                         ELSE results
         IN  SuggestLoop(PushChildren(popped, top.node, top.word, Len(top.node)),
                         results2, limit)

\* get_suggestions without prefix = prefix.lower()
get_suggestions_NoLower(trie, prefix, limit) ==
    IF prefix = <<>> \/ trie = <<>> THEN <<>>
    ELSE LET w == Walk(trie, prefix)
         IN  IF ~w.found THEN <<>>
             ELSE SuggestLoop(<<[node |-> w.node, word |-> prefix]>>, <<>>, limit)

get_suggestions(trie, prefix, limit) ==
    IF prefix = <<>> \/ trie = <<>> THEN <<>>
    ELSE LET w == Walk(trie, Lower(prefix))
         IN  IF ~w.found THEN <<>>
             ELSE SuggestLoop(<<[node |-> w.node, word |-> Lower(prefix)]>>, <<>>, limit)

\* is_valid_ingredient that accepts any node the walk reaches
is_valid_ingredient_AnyNode(trie, word) ==
    IF word = <<>> \/ trie = <<>> THEN FALSE
    ELSE Walk(trie, Lower(word)).found

is_valid_ingredient(trie, word) ==
    IF word = <<>> \/ trie = <<>> THEN FALSE
    ELSE LET w == Walk(trie, Lower(word))
         IN  IF ~w.found THEN FALSE ELSE HasKey(w.node, IDS)

(***************************************************************************)
(* TrieManager.search and _dfs (test_gui_popup.py): the recursive walk.    *)
(***************************************************************************)
\* _dfs that visits the children before the node itself
RECURSIVE Dfs_PostOrder(_, _)
Dfs_PostOrder(node, current_word) ==
    LET RECURSIVE below(_)
        below(i) ==
            IF i > Len(node) THEN <<>>
            ELSE (IF node[i].k # IDS
                  THEN Dfs_PostOrder(node[i].v, Append(current_word, node[i].k))
                  ELSE <<>>) \o below(i + 1)
    IN  below(1) \o (IF HasKey(node, IDS) THEN <<current_word>> ELSE <<>>)

\* _dfs(node, current_word, results): the words it appends to results
RECURSIVE Dfs(_, _)
Dfs(node, current_word) ==
    LET RECURSIVE below(_)
        below(i) ==
            IF i > Len(node) THEN <<>>
            ELSE (IF node[i].k # IDS
                  THEN Dfs(node[i].v, Append(current_word, node[i].k))
                  ELSE <<>>) \o below(i + 1)
    IN  (IF HasKey(node, IDS) THEN <<current_word>> ELSE <<>>) \o below(1)

\* TrieManager.search(prefix)
search(trie, prefix) ==
    IF prefix = <<>> THEN <<>>
    ELSE LET w == Walk(trie, Lower(prefix))
         IN  IF ~w.found THEN <<>> ELSE Dfs(w.node, Lower(prefix))

(***************************************************************************)
(* The persistence gate: TrieHandler.__init__ and _load_or_generate, with  *)
(* the steps of _create_trie_from_csv.                                     *)
(***************************************************************************)
Args     == [source_csv : BOOLEAN, id_col : BOOLEAN, data_col : BOOLEAN]
FullArgs == [source_csv |-> TRUE, id_col |-> TRUE, data_col |-> TRUE]

\* Complete that looks at source_csv alone
Complete_SourceOnly(a) == a.source_csv

\* if source_csv and id_col and data_col
Complete(a) == a.source_csv /\ a.id_col /\ a.data_col

\* what the construction finds on disk when it starts
Snapshot ==
    [fileExists |-> fileExists,
     parses     |-> fileExists /\ Loads(fileBytes).ok,
     fileMtime  |-> fileMtime,
     csvMtime   |-> csvMtime,
     csvExists  |-> csvExists,
     dirExists  |-> dirExists]

NoSnapshot ==
    [fileExists |-> FALSE, parses |-> FALSE, fileMtime |-> 0, csvMtime |-> 0,
     csvExists |-> FALSE, dirExists |-> FALSE]

\* LoadExisting without the except clause: a failure to parse propagates
LoadExisting_NoCatch(a) ==
    /\ fileExists
    /\ root' = (IF Loads(fileBytes).ok THEN Loads(fileBytes).val ELSE <<>>)
    /\ pc' = (IF Loads(fileBytes).ok THEN "ready" ELSE "raised")
    /\ corpusRead' = FALSE
    /\ UNCHANGED <<trie_root, nrows, sawText, inserted, seen, produced, built>>

\* LoadExisting that rebuilds from a newer corpus instead of loading an older file
LoadExisting_Regenerate(a) ==
    /\ fileExists
    /\ IF Complete(a) /\ csvExists /\ fileMtime < csvMtime
       THEN /\ root' = <<>>
            /\ trie_root' = <<>>
            /\ nrows' = 0
            /\ sawText' = FALSE
            /\ inserted' = {}
            /\ seen' = {}
            /\ produced' = {}
            /\ built' = <<>>
            /\ corpusRead' = TRUE
            /\ pc' = "building"
       ELSE /\ root' = (IF Loads(fileBytes).ok THEN Loads(fileBytes).val ELSE <<>>)
            /\ pc' = "ready"
            /\ corpusRead' = FALSE
            /\ UNCHANGED <<trie_root, nrows, sawText, inserted, seen, produced, built>>

\* os.path.exists(self.filepath): load; a failure to parse leaves the trie empty
LoadExisting(a) ==
    /\ fileExists
    /\ root' = (IF Loads(fileBytes).ok THEN Loads(fileBytes).val ELSE <<>>)
    /\ pc' = "ready"
    /\ corpusRead' = FALSE
    /\ UNCHANGED <<trie_root, nrows, sawText, inserted, seen, produced, built>>

\* no file, arguments given: _create_trie_from_csv starts; pd.read_csv raises when
\* the source cannot be read, else the loop starts on an empty trie_root
BeginGenerate(a) ==
    /\ ~fileExists
    /\ Complete(a)
    /\ root' = <<>>
    /\ trie_root' = <<>>
    /\ nrows' = 0
    /\ sawText' = FALSE
    /\ inserted' = {}
    /\ seen' = {}
    /\ produced' = {}
    /\ built' = <<>>
    /\ corpusRead' = csvExists
    /\ pc' = (IF csvExists THEN "building" ELSE "raised")

\* no file, arguments missing: the trie stays empty
StayEmpty(a) ==
    /\ ~fileExists
    /\ ~Complete(a)
    /\ root' = <<>>
    /\ pc' = "ready"
    /\ corpusRead' = FALSE
    /\ UNCHANGED <<trie_root, nrows, sawText, inserted, seen, produced, built>>

load_or_generate(a) == LoadExisting(a) \/ BeginGenerate(a) \/ StayEmpty(a)

\* TrieHandler(filepath, source_csv, id_col, data_col): a process builds its handler
Construct(a) ==
    /\ pc # "building"
    /\ args' = a
    /\ pre' = Snapshot
    /\ load_or_generate(a)
    /\ UNCHANGED <<csvExists, csvMtime, dirExists, fileExists, fileBytes, fileMtime,
                   writable, clock>>
    /\ UNCHANGED <<guiVars, mgrVars, viewVars>>

\* one iteration of the loop over the rows, on row r
ProcessRow(r) ==
    /\ pc = "building"
    /\ trie_root' = RowInto(trie_root, r, Separator)
    /\ inserted' = inserted \cup RowTokens(r, Separator)
    /\ seen' = seen \cup RowKinds(r, Separator)
    /\ produced' = produced \cup RowPairs(r, Separator)
    /\ nrows' = nrows + 1
    /\ sawText' = (sawText \/ "cell" \in DOMAIN r)
    /\ UNCHANGED <<csvExists, csvMtime, args, dirExists, fileExists, fileBytes,
                   fileMtime, writable, clock, root, pc, built, pre, corpusRead>>
    /\ UNCHANGED <<guiVars, mgrVars, viewVars>>

\* df[data_col].str.lower(): pandas gives the .str accessor to a column of text or
\* to an empty one; a CSV with rows whose data cells are all empty is read as a
\* column of NaN floats, and .str raises AttributeError.  The rows of such a CSV
\* are all dropped by dropna, so the failure shows when the loop ends.
TextColumn == nrows = 0 \/ sawText

\* FinishBuild without os.makedirs: open raises when the directory is missing
FinishBuild_NoMakedirs ==
    /\ pc = "building"
    /\ IF ~TextColumn \/ ~writable \/ ~dirExists
       THEN /\ pc' = "raised"
            /\ UNCHANGED <<root, built, dirExists, fileExists, fileBytes, fileMtime>>
       ELSE /\ pc' = "ready"
            /\ root' = convert_sets_to_lists(trie_root)
            /\ built' = convert_sets_to_lists(trie_root)
            /\ dirExists' = TRUE
            /\ fileExists' = TRUE
            /\ fileBytes' = Dumps(convert_sets_to_lists(trie_root))
            /\ fileMtime' = clock
    /\ UNCHANGED <<csvExists, csvMtime, args, writable, clock, trie_root, nrows, sawText,
                   inserted, seen, produced, pre, corpusRead>>
    /\ UNCHANGED <<guiVars, mgrVars, viewVars>>

\* a column without text makes .str.lower() raise; else, after the loop: the sets
\* become lists, the directory is made, the file is written and the trie is returned to __init__, which stores it; os.makedirs and open raise
\* when the file system refuses, and __init__ propagates that
FinishBuild ==
    /\ pc = "building"
    /\ IF ~TextColumn
       THEN /\ pc' = "raised"
            /\ UNCHANGED <<root, built, dirExists, fileExists, fileBytes, fileMtime>>
       ELSE IF ~writable
       THEN /\ pc' = "raised"
            /\ dirExists' \in {dirExists, TRUE}
            /\ UNCHANGED <<root, built, fileExists, fileBytes, fileMtime>>
       ELSE /\ pc' = "ready"
            /\ root' = convert_sets_to_lists(trie_root)
            /\ built' = convert_sets_to_lists(trie_root)
            /\ dirExists' = TRUE
            /\ fileExists' = TRUE
            /\ fileBytes' = Dumps(convert_sets_to_lists(trie_root))
            /\ fileMtime' = clock
    /\ UNCHANGED <<csvExists, csvMtime, args, writable, clock, trie_root, nrows, sawText,
                   inserted, seen, produced, pre, corpusRead>>
    /\ UNCHANGED <<guiVars, mgrVars, viewVars>>

\* the handler of this state came from the build, or from a load of the file
Built  == pc = "ready" /\ corpusRead
Loaded == pc = "ready" /\ pre.fileExists

(***************************************************************************)
(* The build and the load on their own: a first process finds no file and  *)
(* builds from a corpus of up to MaxRows rows, later ones load the file.   *)
(***************************************************************************)
\* current_detail_id = None
None == -1

\* no TrieManager constructed yet
NoManager ==
    [pc |-> "none", trie_root |-> <<>>, op |-> "none", outcome |-> "none",
     pre |-> [fileExists |-> FALSE, fileMtime |-> 0, csvExists |-> FALSE, csvMtime |-> 0,
              writable |-> FALSE],
     temp_root |-> <<>>]

MgrIdle ==
    /\ corpus = <<>>
    /\ mgr = NoManager

\* MainWindow.__init__: no results, no detail shown; the timer is not started
ViewIdle ==
    /\ resultsFile = [kind |-> "missing"]
    /\ current_results_ids = <<>>
    /\ current_detail_id = None
    /\ stackIndex = 0
    /\ queued = 0
    /\ timer = 0
    /\ emitted = 0
    /\ reloads = 0
    /\ sinceReload = 0

\* self.popup = None; no query made yet
NoPopup == [exists |-> FALSE, visible |-> FALSE, items |-> <<>>, row |-> -1]
NoCall  == [op |-> "none"]

\* the window before any event: an empty line edit, no popup, no bubble
GuiInit ==
    /\ text = <<>>
    /\ popup = NoPopup
    /\ bubbles = <<>>
    /\ called = NoCall

InitBuild ==
    /\ csvExists = TRUE
    /\ csvMtime = 0
    /\ args = FullArgs
    /\ dirExists = FALSE
    /\ fileExists = FALSE
    /\ fileBytes = <<>>
    /\ fileMtime = 0
    /\ writable = TRUE
    /\ clock = 1
    /\ root = <<>>
    /\ pc = "start"
    /\ trie_root = <<>>
    /\ nrows = 0
    /\ sawText = FALSE
    /\ inserted = {}
    /\ seen = {}
    /\ produced = {}
    /\ built = <<>>
    /\ pre = NoSnapshot
    /\ corpusRead = FALSE
    /\ GuiInit
    /\ MgrIdle
    /\ watching = FALSE
    /\ ViewIdle

NextBuild ==
    \/ Construct(FullArgs)
    \/ \E r \in Rows : nrows < MaxRows /\ ProcessRow(r)
    \/ FinishBuild

SpecBuild == InitBuild /\ [][NextBuild]_vars

(***************************************************************************)
(* The gate in its environment: the corpus is edited, the persisted file   *)
(* is damaged or removed, time passes, and processes construct handlers.   *)
(***************************************************************************)
Init ==
    /\ csvExists \in BOOLEAN
    /\ csvMtime = 0
    /\ args = FullArgs
    /\ dirExists \in BOOLEAN
    /\ fileExists = FALSE
    /\ fileBytes = <<>>
    /\ fileMtime = 0
    /\ writable \in BOOLEAN
    /\ clock = 1
    /\ root = <<>>
    /\ pc = "start"
    /\ trie_root = <<>>
    /\ nrows = 0
    /\ sawText = FALSE
    /\ inserted = {}
    /\ seen = {}
    /\ produced = {}
    /\ built = <<>>
    /\ pre = NoSnapshot
    /\ corpusRead = FALSE
    /\ GuiInit
    /\ MgrIdle
    /\ watching = FALSE
    /\ ViewIdle

Tick ==
    /\ clock < MaxClock
    /\ clock' = clock + 1
    /\ UNCHANGED <<csvExists, csvMtime, args, dirExists, fileExists, fileBytes,
                   fileMtime, writable, root, pc, trie_root, nrows, sawText, inserted, seen, produced, built,
                   pre, corpusRead>>
    /\ UNCHANGED <<guiVars, mgrVars, viewVars>>

\* somebody saves the source CSV
EditCsv ==
    /\ csvExists
    /\ pc # "building"
    /\ csvMtime # clock
    /\ csvMtime' = clock
    /\ UNCHANGED <<csvExists, args, dirExists, fileExists, fileBytes, fileMtime,
                   writable, clock, root, pc, trie_root, nrows, sawText, inserted, seen, produced, built,
                   pre, corpusRead>>
    /\ UNCHANGED <<guiVars, mgrVars, viewVars>>

\* the persisted file is cut short (a crash while it was written, a bad copy)
CorruptFile(n) ==
    /\ fileExists
    /\ n < Len(fileBytes)
    /\ fileBytes' = SubSeq(fileBytes, 1, n)
    /\ fileMtime' = clock
    /\ UNCHANGED <<csvExists, csvMtime, args, dirExists, fileExists, writable, clock,
                   root, pc, trie_root, nrows, sawText, inserted, seen, produced, built, pre, corpusRead>>
    /\ UNCHANGED <<guiVars, mgrVars, viewVars>>

\* the persisted file is deleted, with or without its directory
RemoveFile(withDir) ==
    /\ fileExists
    /\ fileExists' = FALSE
    /\ fileBytes' = <<>>
    /\ dirExists' = ~withDir
    /\ UNCHANGED <<csvExists, csvMtime, args, fileMtime, writable, clock, root, pc,
                   trie_root, nrows, sawText, inserted, seen, produced, built, pre, corpusRead>>
    /\ UNCHANGED <<guiVars, mgrVars, viewVars>>

Next ==
    \/ \E a \in Args : Construct(a)
    \/ \E r \in GateRows : nrows < MaxGateRows /\ ProcessRow(r)
    \/ FinishBuild
    \/ Tick
    \/ EditCsv
    \/ \E n \in 0..MaxKeep : CorruptFile(n)
    \/ \E d \in BOOLEAN : RemoveFile(d)

Spec == Init /\ [][Next]_vars

(***************************************************************************)
(* The window: one AutocompleteLineEdit with its FlowScrollArea, as        *)
(* _setup_bubble_input wires them, over the handler MainWindow.__init__    *)
(* constructed.  The liked and the disliked box are two instances of this  *)
(* code that share only the handler.                                       *)
(***************************************************************************)
DefaultLimit == 5

GuiTexts == StringsUpTo(Letters \cup {Space}, MaxTextLen)

\* The rows of the corpus behind the window.
GuiRows ==
    {[id |-> 1, cell |-> <<"a", "b", "a", ";", "a", "b", "b">>],
     [id |-> 2, cell |-> <<"A", "b", ";", " ", "b">>]}

diskVars  == <<csvExists, csvMtime, dirExists, fileExists, fileBytes, fileMtime,
               writable, clock>>
buildVars == <<args, pc, trie_root, nrows, sawText, inserted, seen, produced, built,
               pre, corpusRead>>

\* a lookup that walks with setdefault: the path of the word is created
RECURSIVE AfterLookup_SetDefault(_, _)
AfterLookup_SetDefault(node, word) ==
    IF word = <<>> THEN node
    ELSE LET char  == Head(word)
             child == IF HasKey(node, char) THEN Get(node, char) ELSE <<>>
         IN  Put(node, char, AfterLookup_SetDefault(child, Tail(word)))

\* self.root after a query walked it for word: `char not in node`, `node[char]`,
\* `"__ids__" in node` and `.items()` read the dicts and assign nothing
AfterLookup(node, word) == node

\* FloatingList(self.window()): created hidden and empty
Created(p) ==
    IF p.exists THEN p
    ELSE [exists |-> TRUE, visible |-> FALSE, items |-> <<>>, row |-> -1]

\* popup.hide() keeps the items
Hide(p) == [p EXCEPT !.visible = FALSE]

\* FloatingList.update_items(items), then setCurrentRow(-1)
update_items(p, items) ==
    IF items = <<>>
    THEN [p EXCEPT !.items = <<>>, !.row = -1, !.visible = FALSE]
    ELSE [p EXCEPT !.items = items, !.row = -1, !.visible = TRUE]

\* the threshold of _on_text_edited at one character
TooShort_One(t) == Len(t) < 1

\* if len(text) < 2
TooShort(t) == Len(t) < 2

\* AutocompleteLineEdit._on_text_edited(text)
on_text_edited(t) ==
    IF TooShort(t)
    THEN /\ popup' = Hide(Created(popup))
         /\ called' = NoCall
         /\ root' = root
    ELSE LET suggestions == get_suggestions(root, t, DefaultLimit)
         IN  /\ called' = [op |-> "suggest", arg |-> t, ret |-> suggestions]
             /\ root' = AfterLookup(root, Lower(t))
             /\ popup' = IF suggestions = <<>> THEN Hide(Created(popup))
                         ELSE update_items(Created(popup), suggestions)

\* the user edits the text (textEdited is not emitted by setText and clear)
TextEdited(t) ==
    /\ pc = "ready"
    /\ t # text
    /\ text' = t
    /\ on_text_edited(t)
    /\ UNCHANGED <<mgrVars, viewVars, diskVars, buildVars, bubbles>>

\* eventFilter, Key_Down while the popup is visible
KeyDown ==
    /\ pc = "ready"
    /\ popup.visible
    /\ popup' = IF popup.row < Len(popup.items) - 1
                THEN [popup EXCEPT !.row = popup.row + 1]
                ELSE IF popup.row = -1 /\ Len(popup.items) > 0
                THEN [popup EXCEPT !.row = 0]
                ELSE popup
    /\ called' = NoCall
    /\ UNCHANGED <<mgrVars, viewVars, diskVars, buildVars, root, text, bubbles>>

\* eventFilter, Key_Up while the popup is visible
KeyUp ==
    /\ pc = "ready"
    /\ popup.visible
    /\ popup' = IF popup.row > 0 THEN [popup EXCEPT !.row = popup.row - 1] ELSE popup
    /\ called' = NoCall
    /\ UNCHANGED <<mgrVars, viewVars, diskVars, buildVars, root, text, bubbles>>

\* AutocompleteLineEdit._complete_text(item)
complete_text(item) ==
    /\ text' = item
    /\ popup' = IF popup.exists THEN Hide(popup) ELSE popup
    /\ called' = NoCall
    /\ UNCHANGED <<root, bubbles>>

\* the user clicks the i-th suggestion
ItemClicked(i) ==
    /\ pc = "ready"
    /\ popup.visible
    /\ i \in 1..Len(popup.items)
    /\ complete_text(popup.items[i])
    /\ UNCHANGED <<mgrVars, viewVars, diskVars, buildVars>>

\* add_bubble's test without the membership query's answer
Accepted_NonEmpty(t, valid) == t # <<>>

\* if text and self.trie_handler.is_valid_ingredient(text)
Accepted(t, valid) == t # <<>> /\ valid

\* add_bubble(), connected to returnPressed; `and` does not call is_valid_ingredient
\* for an empty text
add_bubble ==
    LET t     == Strip(text)
        valid == is_valid_ingredient(root, t)
    IN  /\ IF t = <<>>
           THEN called' = NoCall /\ root' = root
           ELSE /\ called' = [op |-> "is_member", arg |-> t, ret |-> valid]
                /\ root' = AfterLookup(root, Lower(t))
        /\ IF Accepted(t, valid)
           THEN /\ Len(bubbles) < MaxBubbles
                /\ bubbles' = Append(bubbles, t)
                /\ text' = <<>>
                /\ popup' = IF popup.exists THEN Hide(popup) ELSE popup
           ELSE UNCHANGED <<bubbles, text, popup>>

\* Return: eventFilter completes the text with the current item of a visible popup
\* and consumes the key; otherwise the line edit emits returnPressed
ReturnPressed ==
    /\ pc = "ready"
    /\ IF popup.visible /\ popup.row >= 0
       THEN complete_text(popup.items[popup.row + 1])
       ELSE add_bubble
    /\ UNCHANGED <<mgrVars, viewVars, diskVars, buildVars>>

\* BubbleWidget._remove_self of the i-th bubble
RemoveBubble(i) ==
    /\ pc = "ready"
    /\ i \in 1..Len(bubbles)
    /\ bubbles' = SubSeq(bubbles, 1, i - 1) \o SubSeq(bubbles, i + 1, Len(bubbles))
    /\ called' = NoCall
    /\ UNCHANGED <<mgrVars, viewVars, diskVars, buildVars, root, text, popup>>

\* focusOutEvent: the popup never has the focus (NoFocus policy)
FocusOut ==
    /\ pc = "ready"
    /\ popup.exists
    /\ popup' = Hide(popup)
    /\ called' = NoCall
    /\ UNCHANGED <<mgrVars, viewVars, diskVars, buildVars, root, text, bubbles>>

GuiEvent ==
    \/ \E t \in GuiTexts : TextEdited(t)
    \/ KeyDown
    \/ KeyUp
    \/ ReturnPressed
    \/ \E i \in 1..DefaultLimit : ItemClicked(i)
    \/ \E i \in 1..MaxBubbles : RemoveBubble(i)
    \/ FocusOut

\* MainWindow.__init__ constructs the handler once, then the window takes events
NextGui ==
    \/ pc = "start" /\ Construct(FullArgs)
    \/ \E r \in GuiRows : nrows < MaxGuiRows /\ ProcessRow(r)
    \/ FinishBuild
    \/ GuiEvent

SpecGui == InitBuild /\ [][NextGui]_vars

(***************************************************************************)
(* TrieManager (test_gui_popup.py): the constructor only loads the file;   *)
(* _generate_trie_if_needed compares modification times and rewrites the   *)
(* file.  Each call is one step; the corpus is state.                      *)
(***************************************************************************)
\* the corpora a TrieManager reads: up to MaxMgrRows rows with an id
Corpora == UNION {[1..n -> GateRows] : n \in 0..MaxMgrRows}

handlerVars == <<args, root, pc, trie_root, nrows, sawText, inserted, seen, produced,
                 built, pre, corpusRead>>

\* if doc_id not in node["__ids__"]: node["__ids__"].append(doc_id)
AppendId(node, doc_id) ==
    LET ids == IF HasKey(node, IDS) THEN Get(node, IDS) ELSE <<>>
    IN  Put(node, IDS, IF \E i \in 1..Len(ids) : ids[i] = doc_id THEN ids
                       ELSE Append(ids, doc_id))

\* for char in clean_word: if char not in node: node[char] = {}; node = node[char]
RECURSIVE AddPath(_, _, _)
AddPath(node, clean_word, doc_id) ==
    IF clean_word = <<>> THEN AppendId(node, doc_id)
    ELSE LET char  == Head(clean_word)
             child == IF HasKey(node, char) THEN Get(node, char) ELSE <<>>
         IN  Put(node, char, AddPath(child, Tail(clean_word), doc_id))

\* TrieManager._add_to_trie(trie, word, doc_id)
add_to_trie(trie, word, doc_id) ==
    LET clean_word == Strip(Lower(word))
    IN  IF clean_word = <<>> THEN trie ELSE AddPath(trie, clean_word, doc_id)

RECURSIVE AddItems(_, _, _)
AddItems(trie, items, doc_id) ==
    IF items = <<>> THEN trie
    ELSE AddItems(add_to_trie(trie, Head(items), doc_id), Tail(items), doc_id)

\* the loop over zip(df[id_col], df[data_col]): a NaN cell is passed over
RECURSIVE TempRoot(_, _)
TempRoot(temp_root, rows) ==
    IF rows = <<>> THEN temp_root
    ELSE LET r == Head(rows)
         IN  TempRoot(IF "cell" \notin DOMAIN r THEN temp_root
                      ELSE AddItems(temp_root, Split(r.cell, Separator), r.id),
                      Tail(rows))

\* _get_file_mtime: 0 when the file is missing
InputMtime  == IF csvExists THEN csvMtime ELSE 0
OutputMtime == IF fileExists THEN fileMtime ELSE 0

\* a comparison that takes equal times for an up-to-date file
UpToDate_OrEqual(output_mtime, input_mtime) ==
    output_mtime >= input_mtime /\ output_mtime > 0

\* if output_mtime > input_mtime and output_mtime > 0
UpToDate(output_mtime, input_mtime) ==
    output_mtime > input_mtime /\ output_mtime > 0

MgrSnapshot ==
    [fileExists |-> fileExists, fileMtime |-> fileMtime, csvExists |-> csvExists,
     csvMtime |-> csvMtime, writable |-> writable]

\* _load_trie: a missing or unparsable file gives {}
load_trie == IF fileExists /\ Loads(fileBytes).ok THEN Loads(fileBytes).val ELSE <<>>

\* TrieManager(source_csv, output_json, id_col, data_col)
ManagerConstruct ==
    /\ mgr' = [pc |-> "idle", trie_root |-> load_trie, op |-> "init",
               outcome |-> "loaded", pre |-> MgrSnapshot, temp_root |-> <<>>]
    /\ UNCHANGED <<corpus, diskVars, handlerVars, guiVars, viewVars>>

\* TrieManager._generate_trie_if_needed(): up to date, or the CSV cannot be read
\* (self.trie_root = {}), or the trie is built in temp_root and dumped; makedirs
\* and open raise when the file system refuses
generate_trie_if_needed ==
    /\ mgr.pc = "idle"
    /\ IF UpToDate(OutputMtime, InputMtime)
       THEN /\ mgr' = [mgr EXCEPT !.op = "generate", !.outcome = "fresh",
                                  !.pre = MgrSnapshot, !.temp_root = <<>>]
            /\ UNCHANGED <<dirExists, fileExists, fileBytes, fileMtime>>
       ELSE IF ~csvExists
       THEN /\ mgr' = [mgr EXCEPT !.op = "generate", !.outcome = "unreadable",
                                  !.pre = MgrSnapshot, !.temp_root = <<>>,
                                  !.trie_root = <<>>]
            /\ UNCHANGED <<dirExists, fileExists, fileBytes, fileMtime>>
       ELSE IF ~writable
       THEN /\ mgr' = [mgr EXCEPT !.op = "generate", !.outcome = "raised",
                                  !.pre = MgrSnapshot,
                                  !.temp_root = TempRoot(<<>>, corpus)]
            /\ dirExists' \in {dirExists, TRUE}
            /\ UNCHANGED <<fileExists, fileBytes, fileMtime>>
       ELSE /\ mgr' = [mgr EXCEPT !.op = "generate", !.outcome = "rebuilt",
                                  !.pre = MgrSnapshot,
                                  !.temp_root = TempRoot(<<>>, corpus)]
            /\ dirExists' = TRUE
            /\ fileExists' = TRUE
            /\ fileBytes' = Dumps(TempRoot(<<>>, corpus))
            /\ fileMtime' = clock
    /\ UNCHANGED <<corpus, csvExists, csvMtime, writable, clock, handlerVars, guiVars,
                   viewVars>>

\* somebody saves the source CSV with other rows
SaveCsv(c) ==
    /\ csvExists
    /\ c # corpus
    /\ corpus' = c
    /\ csvMtime' = clock
    /\ UNCHANGED <<mgr, csvExists, dirExists, fileExists, fileBytes, fileMtime, writable,
                   clock, handlerVars, guiVars, viewVars>>

InitManager ==
    /\ csvExists \in BOOLEAN
    /\ csvMtime = 0
    /\ args = FullArgs
    /\ dirExists \in BOOLEAN
    /\ fileExists = FALSE
    /\ fileBytes = <<>>
    /\ fileMtime = 0
    /\ writable \in BOOLEAN
    /\ clock = 1
    /\ root = <<>>
    /\ pc = "start"
    /\ trie_root = <<>>
    /\ nrows = 0
    /\ sawText = FALSE
    /\ inserted = {}
    /\ seen = {}
    /\ produced = {}
    /\ built = <<>>
    /\ pre = NoSnapshot
    /\ corpusRead = FALSE
    /\ GuiInit
    /\ MgrIdle
    /\ watching = FALSE
    /\ ViewIdle

NextManager ==
    \/ ManagerConstruct
    \/ generate_trie_if_needed
    \/ \E c \in Corpora : SaveCsv(c)
    \/ Tick
    \/ \E n \in 0..MaxKeep : CorruptFile(n)
    \/ \E d \in BOOLEAN : RemoveFile(d)

SpecManager == InitManager /\ [][NextManager]_vars

(***************************************************************************)
(* The results view of MainWindow: the watcher on the results file, the    *)
(* debounce timer, the reload, and the navigation of the detail view.      *)
(* The observer thread emits file_changed; the signal is queued to the     *)
(* main thread, whose event loop delivers signals and fires the timer.     *)
(***************************************************************************)
RecipeIds   == 0..MaxRecipeId
ResultLists == UNION {[1..n -> RecipeIds] : n \in 0..MaxResults}

\* what reload_results_from_file can find: no file; a file that is empty, not
\* JSON or not a list; or a list of results, each with an id
ResultFiles ==
    {[kind |-> "missing"], [kind |-> "unusable"]}
        \cup {[kind |-> "list", ids |-> l] : l \in ResultLists}

otherVars == <<diskVars, handlerVars, guiVars, mgrVars>>

\* `not x` for None or an int
Falsy(x) == x = None \/ x = 0

\* list.index(x): the first position of x, counted from 0
Index(l, x) == (CHOOSE i \in 1..Len(l) : l[i] = x /\ \A j \in 1..(i - 1) : l[j] # x) - 1

\* the id action_next_recipe / action_prev_recipe hands to open_detail_view, or
\* the current one when the handler returns early or index raises ValueError
Neighbour(ids, cur, step) ==
    IF Falsy(cur) \/ ids = <<>> THEN cur
    ELSE IF ~(\E i \in 1..Len(ids) : ids[i] = cur) THEN cur
    ELSE ids[((Index(ids, cur) + step) % Len(ids)) + 1]

\* populate_results(data) when the file holds a list; every other case shows a
\* placeholder or passes, and leaves current_results_ids as it was
reload_results_from_file(ids, file) ==
    IF file.kind = "list" THEN file.ids ELSE ids

\* a handler that reloads at once in place of starting the timer
on_file_change_signal_Direct ==
    /\ timer' = timer
    /\ reloads' = reloads + 1
    /\ sinceReload' = 0
    /\ current_results_ids' = reload_results_from_file(current_results_ids, resultsFile)

\* on_file_change_signal: self.debounce_timer.start()
on_file_change_signal ==
    /\ timer' = Interval
    /\ sinceReload' = sinceReload + 1
    /\ UNCHANGED <<reloads, current_results_ids>>

\* something creates, writes, moves or deletes the results file; when the
\* observer runs, RecipeFileHandler._process_event emits file_changed
FileEvent(f) ==
    /\ emitted < MaxSignals
    /\ resultsFile' = f
    /\ IF watching
       THEN queued' = queued + 1 /\ emitted' = emitted + 1
       ELSE UNCHANGED <<queued, emitted>>
    /\ UNCHANGED <<watching, current_results_ids, current_detail_id, stackIndex, timer,
                   reloads, sinceReload>>
    /\ UNCHANGED otherVars

\* the event loop delivers a queued file_changed signal
Deliver ==
    /\ queued > 0
    /\ queued' = queued - 1
    /\ on_file_change_signal
    /\ UNCHANGED <<watching, resultsFile, current_detail_id, stackIndex, emitted>>
    /\ UNCHANGED otherVars

\* time passes on a running timer that is not yet due
TimerTick ==
    /\ timer > 1
    /\ timer' = timer - 1
    /\ UNCHANGED <<watching, resultsFile, current_results_ids, current_detail_id,
                   stackIndex, queued, emitted, reloads, sinceReload>>
    /\ UNCHANGED otherVars

\* the single-shot timer fires: timeout is connected to reload_results_from_file
Timeout ==
    /\ timer = 1
    /\ timer' = 0
    /\ reloads' = reloads + 1
    /\ sinceReload' = 0
    /\ current_results_ids' = reload_results_from_file(current_results_ids, resultsFile)
    /\ UNCHANGED <<watching, resultsFile, current_detail_id, stackIndex, queued, emitted>>
    /\ UNCHANGED otherVars

\* the user clicks the card of a result: open_detail_view(r_id)
open_detail_view(r_id) ==
    /\ current_detail_id' = r_id
    /\ stackIndex' = 1

CardClicked(i) ==
    /\ stackIndex = 0
    /\ i \in 1..Len(current_results_ids)
    /\ open_detail_view(current_results_ids[i])
    /\ UNCHANGED <<watching, resultsFile, current_results_ids, queued, timer, emitted,
                   reloads, sinceReload>>
    /\ UNCHANGED otherVars

action_close_detail ==
    /\ stackIndex = 1
    /\ stackIndex' = 0
    /\ UNCHANGED <<watching, resultsFile, current_results_ids, current_detail_id, queued,
                   timer, emitted, reloads, sinceReload>>
    /\ UNCHANGED otherVars

\* the buttons of the detail view
action_next_recipe ==
    /\ stackIndex = 1
    /\ open_detail_view(Neighbour(current_results_ids, current_detail_id, 1))
    /\ UNCHANGED <<watching, resultsFile, current_results_ids, queued, timer, emitted,
                   reloads, sinceReload>>
    /\ UNCHANGED otherVars

action_prev_recipe ==
    /\ stackIndex = 1
    /\ open_detail_view(Neighbour(current_results_ids, current_detail_id, -1))
    /\ UNCHANGED <<watching, resultsFile, current_results_ids, queued, timer, emitted,
                   reloads, sinceReload>>
    /\ UNCHANGED otherVars

\* the window after MainWindow.__init__: _setup_file_watcher started the observer,
\* or returned early because the folder is missing; the first reload found no file
InitView ==
    /\ csvExists = TRUE
    /\ csvMtime = 0
    /\ args = FullArgs
    /\ dirExists = FALSE
    /\ fileExists = FALSE
    /\ fileBytes = <<>>
    /\ fileMtime = 0
    /\ writable = TRUE
    /\ clock = 1
    /\ root = <<>>
    /\ pc = "start"
    /\ trie_root = <<>>
    /\ nrows = 0
    /\ sawText = FALSE
    /\ inserted = {}
    /\ seen = {}
    /\ produced = {}
    /\ built = <<>>
    /\ pre = NoSnapshot
    /\ corpusRead = FALSE
    /\ GuiInit
    /\ MgrIdle
    /\ watching \in BOOLEAN
    /\ ViewIdle

NextView ==
    \/ \E f \in ResultFiles : FileEvent(f)
    \/ Deliver
    \/ TimerTick
    \/ Timeout
    \/ \E i \in 1..MaxResults : CardClicked(i)
    \/ action_close_detail
    \/ action_next_recipe
    \/ action_prev_recipe

SpecView == InitView /\ [][NextView]_vars

\* the event loop of the running application keeps delivering queued signals
\* and firing due timers
SpecViewFair ==
    SpecView /\ WF_vars(Deliver) /\ WF_vars(TimerTick) /\ WF_vars(Timeout)

(***************************************************************************)
(* Claims about the build, the load and the queries (SpecBuild).           *)
(***************************************************************************)
\* the normalization of the build: lower-case, then trim
Normalize(s) == Strip(Lower(s))

\* C1: every token the build inserts is a member of the index, on the index the
\* build returned and on the index loaded from the file the build wrote.
C1_InsertedIsMember ==
    pc = "ready" => \A t \in inserted : is_valid_ingredient(root, t)

\* a loaded index of a corpus with two tokens, one a proper prefix of the other
C1_Witness ==
    /\ Loaded
    /\ \E t, u \in inserted : t # u /\ IsPrefixOf(t, u)

\* C2: a string whose normalized form was not inserted is not a member; so is a
\* proper prefix of inserted tokens, and so is the empty string.
C2_NotInsertedIsNotMember ==
    pc = "ready" =>
        /\ \A s \in Queries : Normalize(s) \notin inserted => ~is_valid_ingredient(root, s)
        /\ ~is_valid_ingredient(root, <<>>)

\* an index holding a token of which a proper, non-empty prefix was not inserted
C2_Witness ==
    /\ pc = "ready"
    /\ \E s \in Queries, t \in inserted :
          s # <<>> /\ s # t /\ IsPrefixOf(s, t) /\ s \notin inserted

\* C3: suggest(p, k) returns at most k items, each starting with the lower-cased
\* p and each a member of the index.
C3_SuggestBounded ==
    pc = "ready" =>
        \A p \in Queries, k \in Limits :
            LET r == get_suggestions(root, p, k)
            IN  /\ Len(r) <= k
                /\ \A i \in 1..Len(r) :
                      /\ IsPrefixOf(Lower(p), r[i])
                      /\ is_valid_ingredient(root, r[i])

\* a prefix under which more tokens lie than the limit lets through
C3_Witness ==
    /\ pc = "ready"
    /\ \E p \in Queries, k \in Limits :
          /\ k >= 1
          /\ Len(get_suggestions(root, p, k)) = k
          /\ Cardinality({t \in inserted : IsPrefixOf(Lower(p), t)}) > k

\* C4: suggest returns the empty sequence for the empty prefix, on an index with
\* no entries, and for a prefix that no path of the trie spells (no inserted
\* token starts with it).
C4_SuggestEmpty ==
    pc = "ready" =>
        \A p \in Queries, k \in Limits :
            (\/ p = <<>>
             \/ inserted = {}
             \/ ~\E t \in inserted : IsPrefixOf(Lower(p), t))
            => get_suggestions(root, p, k) = <<>>

\* a non-empty index asked for a prefix whose first character is on a path and
\* whose second is not
C4_Witness ==
    /\ pc = "ready"
    /\ \E p \in Queries, t \in inserted :
          /\ Len(p) = 2
          /\ Lower(p)[1] = t[1]
          /\ ~\E u \in inserted : IsPrefixOf(Lower(p), u)

SameAnswers(t1, t2) ==
    /\ \A s \in Queries : is_valid_ingredient(t1, s) = is_valid_ingredient(t2, s)
    /\ \A p \in Queries, k \in Limits : get_suggestions(t1, p, k) = get_suggestions(t2, p, k)

\* the trie the build returns when its last two rows are r1, then r2
EndingWith(r1, r2) ==
    convert_sets_to_lists(RowInto(RowInto(trie_root, r1, Separator), r2, Separator))

\* C5: the builds of the same rows in any two orders answer every is_member and
\* every suggest query alike; here, for the two orders of the last two rows.
C5_OrderIndependent ==
    pc = "building" /\ nrows + 2 <= MaxRows =>
        \A r1, r2 \in Rows : SameAnswers(EndingWith(r1, r2), EndingWith(r2, r1))

\* C6: the index loaded from the file the build wrote is the trie the build
\* returned (same nodes, identifier lists and sibling order) and answers every
\* query as it does.
C6_RoundTrip ==
    Loaded => root = built /\ SameAnswers(root, built)

\* a loaded index whose root has two edges, inserted "b" before "a", and a word
\* of two identifiers
C6_Witness ==
    /\ Loaded
    /\ Len(root) = 2
    /\ root[1].k = "b" /\ root[2].k = "a"
    /\ \E t \in inserted : Len(Get(Walk(root, t).node, IDS)) = 2

(***************************************************************************)
(* Claims about the persistence gate (Spec).                               *)
(***************************************************************************)
AllEmptyAnswers(trie) ==
    /\ \A p \in Queries, k \in Limits : get_suggestions(trie, p, k) = <<>>
    /\ \A s \in Queries : ~is_valid_ingredient(trie, s)

\* C7: a construction that finds the persisted file older than the corpus
\* starts a rebuild from the corpus (whose end rewrites the file); one that
\* finds it newer loads it and reads no corpus.
C7_StalenessPolicy ==
    [][\A a \in Args :
          Construct(a) /\ a = FullArgs /\ fileExists /\ csvExists =>
              /\ fileMtime < csvMtime => corpusRead' /\ pc' = "building"
              /\ fileMtime > csvMtime => ~corpusRead' /\ pc' = "ready"]_vars

C9_NoDescriptorGivesEmpty ==
    [][\A a \in Args :
          Construct(a) /\ ~fileExists /\ a # FullArgs =>
              /\ pc' = "ready"
              /\ ~fileExists' /\ dirExists' = dirExists
              /\ ~corpusRead'
              /\ AllEmptyAnswers(root')]_vars

\* a handler built without the id column, no file on disk, the corpus there
C9_Witness ==
    /\ pc = "ready"
    /\ ~pre.fileExists
    /\ args.source_csv /\ ~args.id_col /\ args.data_col
    /\ ~fileExists
    /\ pre.csvExists

\* C10: with no persisted file and a complete descriptor, the construction runs
\* the build over the corpus; when the build ends, the path being writable, the
\* parent directory is there, the file exists and parses to the trie the
\* handler holds, which is the trie of the rows and has their tokens as members.
C10_GenerateWritesFile ==
    [][/\ \A a \in Args :
             Construct(a) /\ ~fileExists /\ a = FullArgs /\ csvExists =>
                 pc' = "building" /\ corpusRead' /\ trie_root' = <<>>
       /\ FinishBuild /\ writable /\ TextColumn =>
             /\ pc' = "ready"
             /\ root' = convert_sets_to_lists(trie_root)
             /\ \A t \in inserted : is_valid_ingredient(root', t)
             /\ dirExists' /\ fileExists'
             /\ fileMtime' = clock
             /\ Loads(fileBytes').ok
             /\ Loads(fileBytes').val = root']_vars

\* a handler that found neither the file nor its directory and built a non-empty index
C10_Witness ==
    /\ pc = "ready"
    /\ ~pre.fileExists /\ ~pre.dirExists /\ args = FullArgs
    /\ corpusRead
    /\ fileExists /\ dirExists
    /\ inserted # {} /\ root # <<>>
    /\ Loads(fileBytes).val = root

\* C11: when the write of the freshly built index fails, the failure reaches
\* the caller and the index just built still answers the queries of this
\* process: the tokens of the build are members.
C11_BuiltIndexSurvivesWriteFailure ==
    [][FinishBuild /\ TextColumn /\ ~writable =>
          /\ pc' = "raised"
          /\ root' = convert_sets_to_lists(trie_root)
          /\ \A t \in inserted : is_valid_ingredient(root', t)]_vars

\* C12: a construction that finds no persisted file and cannot read the corpus
\* does not fail and yields an empty index.
C12_MissingCorpusRecovered ==
    [][\A a \in Args :
          Construct(a) /\ ~fileExists /\ a = FullArgs /\ ~csvExists =>
              /\ pc' = "ready"
              /\ AllEmptyAnswers(root')]_vars

(***************************************************************************)
(* Claims about the shape of the built trie (SpecBuild).                   *)
(***************************************************************************)
\* the strings spelled by the paths from a node to the terminal nodes below it
RECURSIVE WordsOf(_)
WordsOf(node) ==
    {w \in {<<>>} : HasKey(node, IDS)}
    \cup UNION {{<<node[i].k>> \o w : w \in WordsOf(node[i].v)} :
                  i \in {j \in 1..Len(node) : node[j].k # IDS}}

NormalWords(trie) ==
    /\ ~HasKey(trie, IDS)
    /\ \A w \in WordsOf(trie) : w # <<>> /\ Lower(w) = w /\ Strip(w) = w

\* C13: while a build runs and after it, every root-to-terminal path spells a
\* non-empty, lower-case string without leading or trailing whitespace, and the
\* root carries no terminal marker: a fragment that is empty after trimming
\* inserts nothing.  The same holds of the index a handler holds.
C13_PathsNormalized ==
    /\ NormalWords(trie_root)
    /\ pc = "ready" => NormalWords(root)

\* a handler whose build met a blank fragment and an upper-case or padded one
C13_Witness ==
    /\ pc = "ready"
    /\ {"blank", "raw"} \subseteq seen
    /\ root # <<>>

\* the identifiers a trie keeps at the terminal node of word t (a set while the
\* build runs, a list afterwards)
IdsAt(trie, t) == Get(Walk(trie, t).node, IDS)

NoDuplicates(l) == \A i, j \in 1..Len(l) : i # j => l[i] # l[j]

\* C14: the identifiers at the terminal node of t are exactly those of the rows
\* whose cell gave t after normalization; in the index a handler holds they
\* form a list in which each identifier occurs once.
C14_IdsExact ==
    /\ WordsOf(trie_root) = {p[1] : p \in produced}
    /\ \A t \in WordsOf(trie_root) :
          IdsAt(trie_root, t) = {p[2] : p \in {q \in produced : q[1] = t}}
    /\ pc = "ready" =>
          /\ WordsOf(root) = {p[1] : p \in produced}
          /\ \A t \in WordsOf(root) :
                /\ NoDuplicates(IdsAt(root, t))
                /\ {IdsAt(root, t)[i] : i \in 1..Len(IdsAt(root, t))}
                      = {p[2] : p \in {q \in produced : q[1] = t}}

\* a handler whose build met a row giving one word twice, and a word of two rows
C14_Witness ==
    /\ pc = "ready"
    /\ "repeat" \in seen
    /\ \E t \in WordsOf(root) : Len(IdsAt(root, t)) = 2

(***************************************************************************)
(* Claims about the normalization of the queries (SpecBuild).              *)
(***************************************************************************)
\* C16: is_member trims its argument as the build trims a fragment: for every
\* string s, is_member(s) equals is_member of s without its leading and
\* trailing whitespace.
C16_MemberTrims ==
    pc = "ready" =>
        \A s \in Queries : is_valid_ingredient(root, s) = is_valid_ingredient(root, Strip(s))

\* C17: is_member(s) equals is_member(lower(s)), suggest(s, k) equals
\* suggest(lower(s), k), and every suggestion is a lower-case word of the index.
C17_CaseInsensitive ==
    pc = "ready" =>
        \A s \in Queries :
            /\ is_valid_ingredient(root, s) = is_valid_ingredient(root, Lower(s))
            /\ \A k \in Limits :
                  LET r == get_suggestions(root, s, k)
                  IN  /\ r = get_suggestions(root, Lower(s), k)
                      /\ \A i \in 1..Len(r) : r[i] = Lower(r[i]) /\ r[i] \in WordsOf(root)

\* a handler, built from a cell with an upper-case fragment, that is asked with
\* an upper-case string and answers with a member and with suggestions
C17_Witness ==
    /\ pc = "ready"
    /\ "raw" \in seen
    /\ \E s \in Queries :
          /\ s # Lower(s)
          /\ is_valid_ingredient(root, s)
          /\ get_suggestions(root, s, MaxLimit) # <<>>

(***************************************************************************)
(* Claims about rows the build cannot use (SpecBuild).                     *)
(***************************************************************************)
\* C18: a row without identifier or without text contributes no word and no
\* identifier and does not abort the build; the build of a corpus that gives no
\* word ends with an empty index and writes a file that loads as the empty index.
C18_BadRowsSkipped ==
    [][/\ \A r \in Rows :
             ~Kept(r) /\ ProcessRow(r) => trie_root' = trie_root /\ produced' = produced
       /\ FinishBuild =>
             /\ pc' = "ready"
             /\ inserted = {} =>
                   /\ root' = <<>>
                   /\ AllEmptyAnswers(root')
                   /\ fileExists'
                   /\ Loads(fileBytes').ok /\ Loads(fileBytes').val = <<>>]_vars

(***************************************************************************)
(* Claims about the window and its queries (SpecGui).                      *)
(***************************************************************************)
\* C15: once the handler is constructed, no window event, whatever suggest or
\* is_member call it makes, changes the trie or touches the persisted file.
C15_QueriesReadOnly ==
    [][pc = "ready" =>
          /\ root' = root
          /\ fileExists' = fileExists /\ fileBytes' = fileBytes /\ fileMtime' = fileMtime]_vars

\* a non-empty index that accepted a candidate earlier and was just asked for the
\* suggestions of a prefix it does not hold
C15_Witness ==
    /\ pc = "ready"
    /\ root # <<>>
    /\ bubbles # <<>>
    /\ called.op = "suggest" /\ called.ret = <<>>

\* C19: an edit of the text invokes suggest exactly when the text has at least
\* 2 characters, no other event invokes it, and after an edit that leaves fewer
\* than 2 characters or finds no suggestion the popup is hidden.
C19_SuggestFromTwoChars ==
    [][/\ called'.op = "suggest" => Len(called'.arg) >= 2 /\ called'.arg = text'
       /\ \A t \in GuiTexts :
             TextEdited(t) =>
                 /\ called'.op = "suggest" <=> Len(t) >= 2
                 /\ Len(t) < 2 \/ get_suggestions(root, t, DefaultLimit) = <<>>
                       => popup'.exists /\ ~popup'.visible]_vars

\* a popup that showed suggestions and was hidden by an edit leaving one character
C19_Witness ==
    /\ pc = "ready"
    /\ Len(text) = 1
    /\ popup.exists /\ ~popup.visible /\ popup.items # <<>>
    /\ called.op = "none"

\* the Return press reaches add_bubble with a candidate it rejects
Rejected ==
    /\ ~(popup.visible /\ popup.row >= 0)
    /\ Strip(text) = <<>> \/ ~is_valid_ingredient(root, Strip(text))

\* C20: every bubble carries a text that is trimmed, non-empty and a member of
\* the index; a bubble is added only for the trimmed input text, is_member
\* having returned true for it; a rejected candidate adds no bubble and leaves
\* the input text and the bubbles as they were.
C20_BubblesAreMembers ==
    [][/\ \A i \in 1..Len(bubbles') :
             /\ bubbles'[i] # <<>> /\ Strip(bubbles'[i]) = bubbles'[i]
             /\ is_valid_ingredient(root', bubbles'[i])
       /\ Len(bubbles') > Len(bubbles) =>
             /\ bubbles' = Append(bubbles, Strip(text))
             /\ called' = [op |-> "is_member", arg |-> Strip(text), ret |-> TRUE]
       /\ ReturnPressed /\ Rejected => bubbles' = bubbles /\ text' = text]_vars

\* a candidate that is_member refused, a bubble being there and the text kept
C20_Witness ==
    /\ pc = "ready"
    /\ Len(bubbles) = 1
    /\ text # <<>>
    /\ called.op = "is_member" /\ ~called.ret /\ called.arg = Strip(text)

(***************************************************************************)
(* Claims about the enumeration of suggestions (SpecBuild).                *)
(***************************************************************************)
Min(a, b) == IF a <= b THEN a ELSE b

\* the inserted words that start with the lower-cased p
Matching(p) == {t \in inserted : IsPrefixOf(Lower(p), t)}

SetOf(l) == {l[i] : i \in 1..Len(l)}

\* C21: for a non-empty prefix p and a limit k, suggest(p, k) has exactly
\* min(k, N) items, N the number of inserted words starting with lower(p), none
\* repeated; when fewer than k come back, they are all the words with that prefix.
C21_SuggestExhausts ==
    pc = "ready" =>
        \A p \in Queries \ {<<>>}, k \in Limits :
            LET r == get_suggestions(root, p, k)
            IN  /\ Len(r) = Min(k, Cardinality(Matching(p)))
                /\ NoDuplicates(r)
                /\ Len(r) < k => SetOf(r) = Matching(p)

\* an index with a prefix that has more words than one limit and fewer than another
C21_Witness ==
    /\ pc = "ready"
    /\ \E p \in Queries \ {<<>>}, j \in Limits :
          /\ 1 <= j /\ j < Cardinality(Matching(p))
          /\ Len(get_suggestions(root, p, j)) = j
    /\ \E p \in Queries \ {<<>>}, k \in Limits :
          /\ Cardinality(Matching(p)) >= 1 /\ Cardinality(Matching(p)) < k
          /\ SetOf(get_suggestions(root, p, k)) = Matching(p)

\* a node is alive when it has a child edge or a terminal marker with identifiers
\* (a set while the build runs, a list afterwards)
Alive(node, asLists) ==
    \/ \E i \in 1..Len(node) : node[i].k # IDS
    \/ /\ HasKey(node, IDS)
       /\ IF asLists THEN Get(node, IDS) # <<>> ELSE Get(node, IDS) # {}

RECURSIVE NoDeadBranch(_, _)
NoDeadBranch(node, asLists) ==
    \A i \in 1..Len(node) :
        node[i].k # IDS => Alive(node[i].v, asLists) /\ NoDeadBranch(node[i].v, asLists)

\* C22: in the trie of a running build, in the trie a handler holds and in the
\* persisted file, every node other than the root has a child edge or carries a
\* terminal marker with at least one identifier.
C22_NoDeadBranches ==
    /\ NoDeadBranch(trie_root, FALSE)
    /\ pc = "ready" => NoDeadBranch(root, TRUE)
    /\ fileExists => Loads(fileBytes).ok /\ NoDeadBranch(Loads(fileBytes).val, TRUE)

\* a persisted trie with a node that has both a marker and a child, above a leaf
C22_Witness ==
    /\ pc = "ready"
    /\ fileExists
    /\ \E t, u \in WordsOf(Loads(fileBytes).val) : t # u /\ IsPrefixOf(t, u)

\* C25: for limits j <= k, suggest(p, j) is an initial segment of suggest(p, k).
C25_MonotoneInLimit ==
    pc = "ready" =>
        \A p \in Queries, j, k \in Limits :
            j <= k =>
                LET rj == get_suggestions(root, p, j)
                    rk == get_suggestions(root, p, k)
                IN  Len(rj) <= Len(rk) /\ rj = SubSeq(rk, 1, Len(rj))

\* an index and a prefix for which a larger limit appends a second word
C25_Witness ==
    /\ pc = "ready"
    /\ \E p \in Queries :
          /\ Len(get_suggestions(root, p, 1)) = 1
          /\ Len(get_suggestions(root, p, 2)) = 2

\* the position of the edge labelled c in a node
EdgeIndex(node, c) == CHOOSE i \in 1..Len(node) : node[i].k = c

\* in the pre-order of the trie with siblings in the order of their creation,
\* word t comes before word u
ComesBefore(trie, t, u) ==
    \/ t # u /\ IsPrefixOf(t, u)
    \/ \E m \in 0..(Min(Len(t), Len(u)) - 1) :
          /\ SubSeq(t, 1, m) = SubSeq(u, 1, m)
          /\ t[m + 1] # u[m + 1]
          /\ LET node == Walk(trie, SubSeq(t, 1, m)).node
             IN  EdgeIndex(node, t[m + 1]) < EdgeIndex(node, u[m + 1])

\* C26: suggest returns the words in pre-order, siblings in the order their
\* edges were created: a word that is a proper prefix of another comes first,
\* and the words under an earlier edge come before those under a later one.
C26_PreOrder ==
    pc = "ready" =>
        \A p \in Queries, k \in Limits :
            LET r == get_suggestions(root, p, k)
            IN  \A i, j \in 1..Len(r) : ComesBefore(root, r[i], r[j]) => i < j

\* suggestions that follow the order of creation against the alphabet
C26_Witness ==
    /\ pc = "ready"
    /\ \E p \in Queries :
          get_suggestions(root, p, 2) = <<Append(Lower(p), "b"), Append(Lower(p), "a")>>

\* C27: on a non-empty index, TrieManager.search(p) returns what suggest(p, k)
\* returns for every limit k that is at least the number of matching words.
C27_SearchAgrees ==
    pc = "ready" /\ root # <<>> =>
        \A p \in Queries :
            LET n == Cardinality(Matching(Lower(p)))
            IN  \A k \in n..(n + 1) : search(root, p) = get_suggestions(root, p, k)

\* a prefix for which the recursive search returns a word and its extension
C27_Witness ==
    /\ pc = "ready"
    /\ root # <<>>
    /\ \E p \in Queries \ {<<>>} :
          LET r == search(root, p)
          IN  Len(r) = 2 /\ r[1] # r[2] /\ IsPrefixOf(r[1], r[2])

\* C28: a construction that finds the persisted file never reads the corpus and
\* leaves the file as it is, whatever the modification times and whether or not
\* the file parses; a handler writes the file only when it found none.
C28_ExistingFileUntouched ==
    [][ /\ (fileExists /\ \E a \in Args : Construct(a)) =>
              /\ pc' = "ready"
              /\ ~corpusRead'
              /\ UNCHANGED <<fileExists, fileBytes, fileMtime>>
        /\ (pc = "building" /\ <<fileExists, fileBytes, fileMtime>>' #
                               <<fileExists, fileBytes, fileMtime>>) =>
              ~fileExists /\ ~pre.fileExists ]_vars

\* a handler built over an unparsable file that is older than the corpus
C28_Witness ==
    /\ pc = "ready"
    /\ args = FullArgs
    /\ pre.fileExists /\ ~pre.parses /\ pre.fileMtime < pre.csvMtime
    /\ ~corpusRead
    /\ fileExists /\ fileMtime = pre.fileMtime /\ ~Loads(fileBytes).ok

(***************************************************************************)
(* Claims about TrieManager (SpecManager).                                 *)
(***************************************************************************)
\* C23: with a readable corpus, _generate_trie_if_needed leaves the corpus unread
\* and the file as it is exactly when the file exists and is strictly newer than
\* the corpus; a file that is missing, older or of equal time makes it read the
\* corpus and, the path being writable, rewrite the file from it.
C23_FreshnessRule ==
    [][ (generate_trie_if_needed /\ csvExists) =>
            IF fileExists /\ fileMtime > csvMtime
            THEN /\ mgr'.outcome = "fresh"
                 /\ UNCHANGED <<dirExists, fileExists, fileBytes, fileMtime>>
            ELSE /\ mgr'.outcome \in {"rebuilt", "raised"}
                 /\ mgr'.temp_root = TempRoot(<<>>, corpus)
                 /\ writable =>
                       /\ fileExists'
                       /\ fileMtime' = clock
                       /\ fileBytes' = Dumps(TempRoot(<<>>, corpus)) ]_vars

\* a call that found the file as old as the corpus and rewrote it with other bytes
C23_Witness ==
    /\ mgr.op = "generate"
    /\ mgr.outcome = "rebuilt"
    /\ mgr.pre.fileExists /\ mgr.pre.csvExists
    /\ mgr.pre.fileMtime = mgr.pre.csvMtime
    /\ mgr.temp_root # <<>>
    /\ fileExists /\ fileBytes = Dumps(mgr.temp_root)

\* C24: when the file is missing or not newer than a readable corpus, the
\* construction of the manager, and a rebuild that succeeds, leave the manager's
\* trie_root equal to the trie built from the corpus.
C24_ManagerTrieCurrent ==
    [][ /\ (ManagerConstruct /\ csvExists /\ ~(fileExists /\ fileMtime > csvMtime)) =>
              mgr'.trie_root = TempRoot(<<>>, corpus)
        /\ (generate_trie_if_needed /\ mgr'.outcome = "rebuilt") =>
              mgr'.trie_root = TempRoot(<<>>, corpus) ]_vars

(***************************************************************************)
(* Claims about the results view (SpecView, SpecViewFair).                 *)
(***************************************************************************)
\* the cyclic successor and predecessor of x in a list l of distinct ids
Succ(l, x) == LET i == CHOOSE j \in 1..Len(l) : l[j] = x
              IN  IF i = Len(l) THEN l[1] ELSE l[i + 1]

Pred(l, x) == LET i == CHOOSE j \in 1..Len(l) : l[j] = x
              IN  IF i = 1 THEN l[Len(l)] ELSE l[i - 1]

\* C29: with distinct ids in the results and one of them shown in the detail
\* view, next moves to the cyclic successor and prev to the cyclic predecessor,
\* next followed by prev gives the same id back, and the id shown stays one of
\* the results.
C29_NavigationCycles ==
    [][ (/\ NoDuplicates(current_results_ids)
         /\ stackIndex = 1
         /\ current_detail_id \in SetOf(current_results_ids)) =>
            /\ action_next_recipe =>
                  current_detail_id' = Succ(current_results_ids, current_detail_id)
            /\ action_prev_recipe =>
                  current_detail_id' = Pred(current_results_ids, current_detail_id)
            /\ Neighbour(current_results_ids,
                         Neighbour(current_results_ids, current_detail_id, 1), -1)
                   = current_detail_id
            /\ (action_next_recipe \/ action_prev_recipe) =>
                  current_detail_id' \in SetOf(current_results_ids') ]_vars

\* C30: a delivered file_changed signal (re)starts the debounce timer at its full
\* interval; after startup the reload runs only in the step in which the running
\* timer expires, once for all the signals delivered since the last reload, and
\* delivered signals are never left without a running timer; every signal,
\* queued or delivered, is eventually followed by a reload.
C30_DebouncedRefresh ==
    /\ [][ /\ queued' < queued => timer' = Interval
           /\ reloads' # reloads =>
                 /\ timer = 1 /\ timer' = 0
                 /\ reloads' = reloads + 1
                 /\ sinceReload >= 1 /\ sinceReload' = 0 ]_vars
    /\ [](timer = 0 <=> sinceReload = 0)
    /\ (queued > 0 \/ sinceReload > 0) ~> (queued = 0 /\ sinceReload = 0)

\* a burst of signals that ended in one reload
C30_Witness ==
    /\ emitted >= 2
    /\ reloads = 1
    /\ queued = 0
    /\ timer = 0
    /\ sinceReload = 0

====
